---- MODULE Spec2Model ----
(***************************************************************************)
(* Crypto-Arb-Bot: the configuration loader (config/config.py) and the     *)
(* credential resolver (src/crypto_arb_bot/credentials.py).                *)
(*                                                                         *)
(* Python values are tagged records.  A str is a sequence of tokens, so    *)
(* that concatenation, upper-casing and "contains" are computed.  A finite *)
(* float holds its value in thousandths (m); an int holds its value (v) or *)
(* is marked big: an int whose magnitude is beyond the largest double,     *)
(* such as 10**400, which TOML integer syntax and toml.load both accept.   *)
(***************************************************************************)
EXTENDS Integers, Sequences, FiniteSets, TLC

VARIABLES
    cwd,                  \* os.getcwd(): the process's working directory
    DEFAULT_CONFIG_FILE,  \* module global, set when config.py is imported
    importCwd,            \* history: the working directory at import time
    environ,              \* os.environ: variable name -> None or str
    fileData,             \* the key/value content of the config file on disk
    heap,                 \* list objects: id -> sequence of items
    instances,            \* Config objects constructed so far, in order
    cfgRet,               \* outcome of the last load_config call
    callerRet,            \* outcome of the last operation on a held Config
    keyring,              \* secret store, namespace "arbbot": name -> value
    keyRet                \* outcome of the last get_api_key call

vars == <<cwd, DEFAULT_CONFIG_FILE, importCwd, environ, fileData, heap,
          instances, cfgRet, callerRet, keyring, keyRet>>

\* Most Config objects kept alive at once
MaxInstances == 2

\* Longest market_pairs list a holder grows
MaxPairs == 3

----------------------------------------------------------------------------
(* Python values *)

None == [t |-> "None"]

MISSING == [t |-> "missing"]

PyBool(b) == [t |-> "bool", b |-> b]

PyInt(n) == [t |-> "int", v |-> n, big |-> FALSE]

\* 10**400: an int, positive, too large for float()
HugeInt == [t |-> "int", v |-> 1, big |-> TRUE]

PyFloat(m) == [t |-> "float", k |-> "fin", m |-> m]

NaN == [t |-> "float", k |-> "nan", m |-> 0]

Inf == [t |-> "float", k |-> "inf", m |-> 0]

PyStr(s) == [t |-> "str", s |-> s]

PyBytes(s) == [t |-> "bytes", s |-> s]

\* a list as written in a file
PyList(items) == [t |-> "list", items |-> items]

\* a list object in memory
PyRef(id) == [t |-> "list", ref |-> id]

\* bool(x): Python truthiness
Truthy(x) ==
    CASE x.t = "None" -> FALSE
      [] x.t = "bool" -> x.b
      [] x.t = "int" -> x.big \/ x.v # 0
      [] x.t = "float" -> x.k # "fin" \/ x.m # 0
      [] x.t = "str" -> Len(x.s) > 0
      [] x.t = "bytes" -> Len(x.s) > 0
      [] OTHER -> TRUE

\* a or b
PyOr(a, b) == IF Truthy(a) THEN a ELSE b

\* isinstance(x, int): bool is a subclass of int
IsInstanceInt(x) == x.t \in {"int", "bool"}

\* isinstance(x, (int, float))
IsInstanceIntFloat(x) == x.t \in {"int", "bool", "float"}

\* Position of a number on the extended line: -inf, below every double,
\* finite, above every double, +inf.
NumClass(x) ==
    CASE x.t = "float" /\ x.k = "inf" -> 2
      [] x.t = "float" /\ x.k = "-inf" -> -2
      [] x.t = "int" /\ x.big -> IF x.v > 0 THEN 1 ELSE -1
      [] OTHER -> 0

\* Value of a finite number, in thousandths
Milli(x) ==
    CASE x.t = "bool" -> IF x.b THEN 1000 ELSE 0
      [] x.t = "int" -> x.v * 1000
      [] OTHER -> x.m

IsNaN(x) == x.t = "float" /\ x.k = "nan"

\* a < b on numbers: every comparison with nan is False
PyLt(a, b) ==
    /\ ~IsNaN(a) /\ ~IsNaN(b)
    /\ \/ NumClass(a) < NumClass(b)
       \/ NumClass(a) = 0 /\ NumClass(b) = 0 /\ Milli(a) < Milli(b)

\* a <= b on numbers
PyLe(a, b) ==
    /\ ~IsNaN(a) /\ ~IsNaN(b)
    /\ \/ NumClass(a) < NumClass(b)
       \/ NumClass(a) = 0 /\ NumClass(b) = 0 /\ Milli(a) <= Milli(b)

\* float(x) for an int, bool or float: [ok, value]; an int beyond the
\* largest double raises OverflowError
ToFloat(x) ==
    CASE x.t = "float" -> [ok |-> TRUE, value |-> x]
      [] x.t = "bool" -> [ok |-> TRUE, value |-> PyFloat(Milli(x))]
      [] x.t = "int" /\ ~x.big -> [ok |-> TRUE, value |-> PyFloat(x.v * 1000)]
      [] OTHER -> [ok |-> FALSE, value |-> None]

----------------------------------------------------------------------------
(* config/config.py *)

CONFIG_PATH_ENV == PyStr(<<"ARBBOT_CONFIG">>)

MaxCyclesLow == 1

MaxCyclesHigh == 10000

MaxRetriesLow == 1

MaxRetriesHigh == 100

FieldNames ==
    {"market_pairs", "max_cycles", "fetch_interval", "min_spread", "max_retries"}

\* os.path.join(a, b) for a relative b
PathJoin(a, b) ==
    IF Len(a.s) = 0 \/ a.s[Len(a.s)] = "/"
    THEN PyStr(a.s \o b.s)
    ELSE PyStr(a.s \o <<"/">> \o b.s)

\* DEFAULT_CONFIG_FILE = os.path.join(os.getcwd(), "config.toml")
DefaultConfigFile(dir) == PathJoin(dir, PyStr(<<"config.toml">>))

\* os.getenv(name)
Getenv(name) == IF name \in DOMAIN environ THEN environ[name] ELSE None

Raise(exc, message) ==
    [kind |-> "raise", exc |-> exc, message |-> message, value |-> None]

Return(value) ==
    [kind |-> "return", exc |-> "", message |-> <<>>, value |-> value]

ConfigError(message) == Raise("ConfigError", message)

\* str(path) spliced into an f-string
Fmt(x) == IF x.t = "str" THEN x.s ELSE <<x.t>>

\* The file at a path, as the loader finds it
NoFile == [f |-> "absent"]

Malformed == [f |-> "malformed"]

ParsedFile(data) == [f |-> "toml", data |-> data]

\* toml.load: the array of the document becomes a fresh list object
toml_load(data, h) ==
    IF data["market_pairs"].t = "list"
    THEN [raw |-> [data EXCEPT !["market_pairs"] = PyRef(Len(h) + 1)],
          heap |-> Append(h, data["market_pairs"].items)]
    ELSE [raw |-> data, heap |-> h]

_read_config_file(path, file, h) ==
    IF file.f = "absent"
    THEN [res |-> ConfigError(<<"Config file not found: ">> \o Fmt(path)),
          heap |-> h]
    ELSE IF file.f = "malformed"
    THEN [res |-> ConfigError(<<"Failed to parse config (">> \o Fmt(path)
                               \o <<"): ">> \o <<"TomlDecodeError">>),
          heap |-> h]
    ELSE LET ld == toml_load(file.data, h)
         IN  [res |-> Return(ld.raw), heap |-> ld.heap]

\* data.get(key)
DictGet(data, key) == IF data[key] = MISSING THEN None ELSE data[key]

\* not pairs, for a list object
ListEmpty(x, h) == Len(h[x.ref]) = 0

Config(pairs, cycles, interval, spread, retries) ==
    [market_pairs |-> pairs, max_cycles |-> cycles, fetch_interval |-> interval,
     min_spread |-> spread, max_retries |-> retries]

_validate_config(data, h) ==
    LET pairs == DictGet(data, "market_pairs")
        cycles == DictGet(data, "max_cycles")
        interval == DictGet(data, "fetch_interval")
        spread == DictGet(data, "min_spread")
        retries == DictGet(data, "max_retries")
    IN  IF pairs.t # "list" \/ ListEmpty(pairs, h)
        THEN ConfigError(<<"market_pairs", " must be a non-empty list">>)
        ELSE IF ~IsInstanceInt(cycles)
                \/ ~(PyLe(PyInt(MaxCyclesLow), cycles)
                     /\ PyLe(cycles, PyInt(MaxCyclesHigh)))
        THEN ConfigError(<<"max_cycles", " must be an integer between 1 and 10000">>)
        ELSE IF ~IsInstanceIntFloat(interval) \/ PyLe(interval, PyInt(0))
        THEN ConfigError(<<"fetch_interval", " must be a positive number">>)
        ELSE IF ~IsInstanceIntFloat(spread) \/ PyLt(spread, PyInt(0))
        THEN ConfigError(<<"min_spread", " must be >= 0">>)
        ELSE IF ~IsInstanceInt(retries)
                \/ ~(PyLe(PyInt(MaxRetriesLow), retries)
                     /\ PyLe(retries, PyInt(MaxRetriesHigh)))
        THEN ConfigError(<<"max_retries", " must be an integer between 1 and 100">>)
        ELSE IF ~ToFloat(interval).ok \/ ~ToFloat(spread).ok
        THEN Raise("OverflowError", <<"int too large to convert to float">>)
        ELSE Return(Config(pairs, cycles, ToFloat(interval).value,
                           ToFloat(spread).value, retries))

\* Mutant: the environment override is tried before the argument
ResolvePath_EnvFirst(path) ==
    PyOr(PyOr(Getenv(CONFIG_PATH_ENV), path), DEFAULT_CONFIG_FILE)

\* Mutant: the default is computed from the working directory of the call
ResolvePath_CwdAtCall(path) ==
    PyOr(PyOr(path, Getenv(CONFIG_PATH_ENV)), DefaultConfigFile(cwd))

\* cfg_path = path or os.getenv(CONFIG_PATH_ENV) or DEFAULT_CONFIG_FILE
ResolvePath(path) ==
    PyOr(PyOr(path, Getenv(CONFIG_PATH_ENV)), DEFAULT_CONFIG_FILE)

\* load_config(path), reading `file` at the resolved path
load_config(path, file, h) ==
    LET cfg_path == ResolvePath(path)
        rd == _read_config_file(cfg_path, file, h)
    IN  IF rd.res.kind = "raise"
        THEN [cfg_path |-> cfg_path, out |-> rd.res, heap |-> h]
        ELSE [cfg_path |-> cfg_path,
              out |-> _validate_config(rd.res.value, rd.heap),
              heap |-> rd.heap]

NoCall ==
    [called |-> FALSE, path |-> None, env |-> None, cwd |-> None,
     cfg_path |-> None, file |-> "", kind |-> "", exc |-> "",
     message |-> <<>>, instance |-> 0]

\* A call of load_config.  A Config that is returned is a new object; the
\* list read for a load that fails is garbage.
LoadConfig(path, file) ==
    LET r == load_config(path, file, heap)
        ok == r.out.kind = "return"
    IN  /\ Len(instances) < MaxInstances
        /\ heap' = IF ok THEN r.heap ELSE heap
        /\ instances' = IF ok THEN Append(instances, r.out.value) ELSE instances
        /\ cfgRet' = [called |-> TRUE, path |-> path,
                      env |-> Getenv(CONFIG_PATH_ENV), cwd |-> cwd,
                      cfg_path |-> r.cfg_path, file |-> file.f,
                      kind |-> r.out.kind, exc |-> r.out.exc,
                      message |-> r.out.message,
                      instance |-> IF ok THEN Len(instances) + 1 ELSE 0]
        /\ UNCHANGED <<cwd, DEFAULT_CONFIG_FILE, importCwd, environ, fileData,
                       callerRet, keyring, keyRet>>

\* os.chdir(dir) by the process
ChDir(dir) ==
    /\ cwd' = dir
    /\ UNCHANGED <<DEFAULT_CONFIG_FILE, importCwd, environ, fileData, heap,
                   instances, cfgRet, callerRet, keyring, keyRet>>

\* os.environ[name] = value, or its removal (None)
PutEnv(name, value) ==
    /\ name \in DOMAIN environ
    /\ environ' = [environ EXCEPT ![name] = value]
    /\ UNCHANGED <<cwd, DEFAULT_CONFIG_FILE, importCwd, fileData, heap,
                   instances, cfgRet, callerRet, keyring, keyRet>>

\* cfg.<field> = value by the holder of a Config: the dataclass is frozen
CallerSetAttr(i, field, value) ==
    /\ i \in DOMAIN instances
    /\ field \in FieldNames
    /\ callerRet' = [op |-> "setattr", instance |-> i, exc |-> "FrozenInstanceError"]
    /\ UNCHANGED <<cwd, DEFAULT_CONFIG_FILE, importCwd, environ, fileData, heap,
                   instances, cfgRet, keyring, keyRet>>

\* cfg.market_pairs.append(item) by the holder of a Config: the field holds
\* the list object itself
CallerAppend(i, item) ==
    /\ i \in DOMAIN instances
    /\ Len(heap[instances[i].market_pairs.ref]) < MaxPairs
    /\ heap' = [heap EXCEPT ![instances[i].market_pairs.ref] = Append(@, item)]
    /\ callerRet' = [op |-> "append", instance |-> i, exc |-> ""]
    /\ UNCHANGED <<cwd, DEFAULT_CONFIG_FILE, importCwd, environ, fileData,
                   instances, cfgRet, keyring, keyRet>>

----------------------------------------------------------------------------
(* src/crypto_arb_bot/credentials.py *)

\* str.upper() of one character, over the letters the service names use
UpperChar(c) ==
    CASE c = "k" -> "K"
      [] c = "r" -> "R"
      [] OTHER -> c

\* Mutant: the variable is named by the service name as given
Upper_AsGiven(name) == name

\* service_name.upper()
Upper(name) == PyStr([i \in DOMAIN name.s |-> UpperChar(name.s[i])])

\* keyring.get_password("arbbot", service_name)
keyring_get_password(service_name) == keyring[service_name]

CredentialError(message) == Raise("CredentialError", message)

\* Mutant: the environment is consulted first, the secret store second
get_api_key_EnvFirst(service_name) ==
    IF ~(service_name.t = "str" /\ Truthy(service_name))
    THEN [out |-> Raise("AssertionError",
                        <<"service_name must be a non-empty string">>),
          envReads |-> <<>>]
    ELSE LET fromEnv == Getenv(Upper(service_name))
             key == IF Truthy(fromEnv) THEN fromEnv
                    ELSE keyring_get_password(service_name)
             reads == <<Upper(service_name)>>
         IN  IF ~(key = None \/ key.t = "str")
             THEN [out |-> Raise("AssertionError",
                                 <<"retrieved key must be a string or None">>),
                   envReads |-> reads]
             ELSE IF ~Truthy(key)
             THEN [out |-> CredentialError(<<"API key for '">> \o service_name.s
                              \o <<"' not found in keyring or environment">>),
                   envReads |-> reads]
             ELSE [out |-> Return(key), envReads |-> reads]

\* Mutant: the final presence check is missing, the key is returned as found
get_api_key_NoRaise(service_name) ==
    IF ~(service_name.t = "str" /\ Truthy(service_name))
    THEN [out |-> Raise("AssertionError",
                        <<"service_name must be a non-empty string">>),
          envReads |-> <<>>]
    ELSE LET stored == keyring_get_password(service_name)
             fallback == ~Truthy(stored)
             key == IF fallback THEN Getenv(Upper(service_name)) ELSE stored
             reads == IF fallback THEN <<Upper(service_name)>> ELSE <<>>
         IN  IF ~(key = None \/ key.t = "str")
             THEN [out |-> Raise("AssertionError",
                                 <<"retrieved key must be a string or None">>),
                   envReads |-> reads]
             ELSE [out |-> Return(key), envReads |-> reads]

\* get_api_key(service_name): the outcome and the variables os.getenv read
get_api_key(service_name) ==
    IF ~(service_name.t = "str" /\ Truthy(service_name))
    THEN [out |-> Raise("AssertionError",
                        <<"service_name must be a non-empty string">>),
          envReads |-> <<>>]
    ELSE LET stored == keyring_get_password(service_name)
             fallback == ~Truthy(stored)
             key == IF fallback THEN Getenv(Upper(service_name)) ELSE stored
             reads == IF fallback THEN <<Upper(service_name)>> ELSE <<>>
         IN  IF ~(key = None \/ key.t = "str")
             THEN [out |-> Raise("AssertionError",
                                 <<"retrieved key must be a string or None">>),
                   envReads |-> reads]
             ELSE IF ~Truthy(key)
             THEN [out |-> CredentialError(<<"API key for '">> \o service_name.s
                              \o <<"' not found in keyring or environment">>),
                   envReads |-> reads]
             ELSE [out |-> Return(key), envReads |-> reads]

NoKeyCall ==
    [called |-> FALSE, service_name |-> None, environ |-> <<>>,
     envReads |-> <<>>, kind |-> "", exc |-> "", message |-> <<>>,
     value |-> None]

\* A call of get_api_key
GetApiKey(service_name) ==
    LET r == get_api_key(service_name)
    IN  /\ keyRet' = [called |-> TRUE, service_name |-> service_name,
                      environ |-> environ, envReads |-> r.envReads,
                      kind |-> r.out.kind, exc |-> r.out.exc,
                      message |-> r.out.message, value |-> r.out.value]
        /\ UNCHANGED <<cwd, DEFAULT_CONFIG_FILE, importCwd, environ, fileData,
                       heap, instances, cfgRet, callerRet, keyring>>

----------------------------------------------------------------------------
(* Inputs *)

Sym(s) == PyStr(<<s>>)

Dirs == {PyStr(<<"/">>), PyStr(<<"/", "srv", "/", "bot">>)}

ExplicitPath == PyStr(<<"/", "etc", "/", "bot.toml">>)

EnvPath == PyStr(<<"/", "opt", "/", "env.toml">>)

PathArgs == {None, PyStr(<<>>), ExplicitPath}

EnvPathValues == {None, PyStr(<<>>), EnvPath}

ServiceNames == {PyStr(<<>>), PyStr(<<"k", "r">>), PyStr(<<"K", "r">>)}

ServiceArgs == ServiceNames \cup {None}

KeyEnvNames == {PyStr(<<"K", "R">>), PyStr(<<"k", "r">>)}

EnvNames == {CONFIG_PATH_ENV} \cup KeyEnvNames

StoreValues ==
    {None, PyStr(<<>>), PyStr(<<"s3cr3t">>), PyBytes(<<>>), PyBytes(<<"raw">>)}

KeyEnvValues == {None, PyStr(<<>>), PyStr(<<"envkey">>)}

PairsInputs ==
    {MISSING, PyStr(<<"BTC-USD">>), PyList(<<>>),
     PyList(<<Sym("BTC-USD"), Sym("ETH-USD")>>)}

CyclesInputs ==
    {MISSING, PyBool(TRUE), PyInt(0), PyInt(1), PyInt(10000), PyInt(10001),
     PyFloat(5000), PyStr(<<"100">>)}

IntervalInputs ==
    {MISSING, PyBool(TRUE), PyInt(0), PyInt(5), PyFloat(5000),
     PyFloat(-1000), NaN, Inf, PyStr(<<"5.0">>)}

SpreadInputs ==
    {MISSING, PyInt(0), PyInt(-1), PyFloat(2), NaN, PyStr(<<"0.002">>)}

RetriesInputs ==
    {MISSING, PyBool(TRUE), PyInt(0), PyInt(1), PyInt(100), PyInt(101),
     PyFloat(3000), PyStr(<<"3">>)}

\* File contents whose numbers are drawn from the sets given
FileInputs(intervals, spreads) ==
    {[k \in FieldNames |->
        CASE k = "market_pairs" -> p
          [] k = "max_cycles" -> c
          [] k = "fetch_interval" -> i
          [] k = "min_spread" -> s
          [] OTHER -> r] :
     p \in PairsInputs, c \in CyclesInputs, i \in intervals,
     s \in spreads, r \in RetriesInputs}

\* market_pairs=["BTC-USD","ETH-USD"], max_cycles=100, fetch_interval=5.0,
\* min_spread=0.002, max_retries=3
GoodData ==
    [k \in FieldNames |->
        CASE k = "market_pairs" -> PyList(<<Sym("BTC-USD"), Sym("ETH-USD")>>)
          [] k = "max_cycles" -> PyInt(100)
          [] k = "fetch_interval" -> PyFloat(5000)
          [] k = "min_spread" -> PyFloat(2)
          [] OTHER -> PyInt(3)]

NoCallerOp == [op |-> "", instance |-> 0, exc |-> ""]

----------------------------------------------------------------------------
(* Specifications *)

\* config.py has just been imported in directory dir, the file holds data,
\* the secret store holds store
InitWith(dir, data, store) ==
    /\ cwd = dir
    /\ DEFAULT_CONFIG_FILE = DefaultConfigFile(dir)
    /\ importCwd = dir
    /\ environ = [n \in EnvNames |-> None]
    /\ fileData = data
    /\ heap = <<>>
    /\ instances = <<>>
    /\ cfgRet = NoCall
    /\ callerRet = NoCallerOp
    /\ keyring = store
    /\ keyRet = NoKeyCall

EmptyStore == [n \in ServiceNames |-> None]

\* The loader under changes of working directory and environment
Init == \E dir \in Dirs : InitWith(dir, GoodData, EmptyStore)

Next ==
    \/ \E dir \in Dirs : ChDir(dir)
    \/ \E value \in EnvPathValues : PutEnv(CONFIG_PATH_ENV, value)
    \/ \E path \in PathArgs :
         \E file \in {NoFile, Malformed, ParsedFile(fileData)} :
           LoadConfig(path, file)

Spec == Init /\ [][Next]_vars

\* Validation of every file content of FileInputs
InitValidate ==
    \E data \in FileInputs(IntervalInputs, SpreadInputs) :
      InitWith(PyStr(<<"/">>), data, EmptyStore)

NextValidate ==
    \E path \in {None, ExplicitPath} : LoadConfig(path, ParsedFile(fileData))

SpecValidate == InitValidate /\ [][NextValidate]_vars

\* The same, with integers beyond the range of a double among the numbers
InitValidateWide ==
    \E data \in FileInputs(IntervalInputs \cup {HugeInt},
                          SpreadInputs \cup {HugeInt}) :
      InitWith(PyStr(<<"/">>), data, EmptyStore)

SpecValidateWide == InitValidateWide /\ [][NextValidate]_vars

\* Holders of returned Config objects
InitConfigUse ==
    \E pairs \in {<<Sym("BTC-USD")>>, <<Sym("BTC-USD"), Sym("ETH-USD")>>} :
      InitWith(PyStr(<<"/">>),
               [GoodData EXCEPT !["market_pairs"] = PyList(pairs)], EmptyStore)

NextConfigUse ==
    \/ LoadConfig(None, ParsedFile(fileData))
    \/ \E i \in 1..MaxInstances : \E field \in FieldNames :
         CallerSetAttr(i, field, PyInt(7))
    \/ \E i \in 1..MaxInstances : \E item \in {Sym("XRP-USD"), PyInt(7)} :
         CallerAppend(i, item)

SpecConfigUse == InitConfigUse /\ [][NextConfigUse]_vars

\* The credential resolver over every secret store of StoreValues
InitCredentials ==
    \E store \in [ServiceNames -> StoreValues] :
      InitWith(PyStr(<<"/">>), GoodData, store)

NextCredentials ==
    \/ \E name \in KeyEnvNames : \E value \in KeyEnvValues : PutEnv(name, value)
    \/ \E service_name \in ServiceArgs : GetApiKey(service_name)

SpecCredentials == InitCredentials /\ [][NextCredentials]_vars

----------------------------------------------------------------------------
(* The documented constraints, stated apart from the code's checks *)

NonEmptyStr(x) == x.t = "str" /\ Len(x.s) > 0

\* nothing, or an empty value
IsEmptyValue(x) == x = None \/ (x.t \in {"str", "bytes"} /\ Len(x.s) = 0)

DocInteger(x) == x.t = "int"

DocNumber(x) == x.t \in {"int", "float"}

DocPositive(x) ==
    CASE x.t = "int" -> x.v > 0
      [] x.t = "float" -> x.k = "inf" \/ (x.k = "fin" /\ x.m > 0)
      [] OTHER -> FALSE

DocNonNegative(x) ==
    CASE x.t = "int" -> x.v >= 0
      [] x.t = "float" -> x.k = "inf" \/ (x.k = "fin" /\ x.m >= 0)
      [] OTHER -> FALSE

DocInRange(x, lo, hi) == DocInteger(x) /\ ~x.big /\ lo <= x.v /\ x.v <= hi

DocValid(k, x) ==
    CASE k = "market_pairs" -> x.t = "list" /\ Len(x.items) > 0
      [] k = "max_cycles" -> DocInRange(x, 1, 10000)
      [] k = "fetch_interval" -> DocNumber(x) /\ DocPositive(x)
      [] k = "min_spread" -> DocNumber(x) /\ DocNonNegative(x)
      [] OTHER -> DocInRange(x, 1, 100)

InvalidFields(data) == {k \in FieldNames : ~DocValid(k, data[k])}

\* x is the floating-point form of the number y of the file
FloatOf(x, y) ==
    /\ x.t = "float"
    /\ IF y.t = "float" THEN x = y
       ELSE ~y.big /\ x.k = "fin" /\ x.m = y.v * 1000

\* The last call read a file that parsed
ParsedCall == cfgRet.called /\ cfgRet.file = "toml"

Contains(msg, s) ==
    \E i \in 1..(Len(msg) - Len(s) + 1) : SubSeq(msg, i, i + Len(s) - 1) = s

\* The environment variable a service's key is documented to fall back to
DocEnvName(name) ==
    CASE name = PyStr(<<"k", "r">>) -> PyStr(<<"K", "R">>)
      [] name = PyStr(<<"K", "r">>) -> PyStr(<<"K", "R">>)
      [] OTHER -> name

\* The last get_api_key call was given a non-empty string
NamedCall == keyRet.called /\ NonEmptyStr(keyRet.service_name)

\* What the secret store held, and the fallback variable held, at that call
StoredAtCall == keyring[keyRet.service_name]

EnvAtCall == keyRet.environ[DocEnvName(keyRet.service_name)]

----------------------------------------------------------------------------
(* Claims *)

\* C1: whenever all five fields of the parsed file are valid, load_config
\* returns a Config whose fields equal the file's values, fetch_interval and
\* min_spread as floats and the other three as they are.
C1_ValidFileGivesConfig ==
    (ParsedCall /\ InvalidFields(fileData) = {}) =>
        /\ cfgRet.kind = "return"
        /\ LET c == instances[cfgRet.instance]
           IN  /\ heap[c.market_pairs.ref] = fileData["market_pairs"].items
               /\ c.max_cycles = fileData["max_cycles"]
               /\ FloatOf(c.fetch_interval, fileData["fetch_interval"])
               /\ FloatOf(c.min_spread, fileData["min_spread"])
               /\ c.max_retries = fileData["max_retries"]

\* C2: whenever exactly one field of the parsed file is missing or outside
\* its documented bounds, load_config returns no Config and raises
\* ConfigError with a message naming that field.
C2_OneBadFieldIsNamed ==
    (ParsedCall /\ Cardinality(InvalidFields(fileData)) = 1) =>
        /\ cfgRet.kind = "raise"
        /\ cfgRet.exc = "ConfigError"
        /\ \A k \in InvalidFields(fileData) : Contains(cfgRet.message, <<k>>)

\* C3: whenever max_cycles or max_retries is given with a type that is not
\* integer (float, bool, str) and the other fields are valid, load_config
\* raises ConfigError.
C3_NonIntegerTypeRejected ==
    (/\ ParsedCall
     /\ \E k \in {"max_cycles", "max_retries"} :
          /\ fileData[k] # MISSING
          /\ ~DocInteger(fileData[k])
          /\ InvalidFields(fileData) \subseteq {k}) =>
        (cfgRet.kind = "raise" /\ cfgRet.exc = "ConfigError")

\* C4 as stated: a path argument that is supplied is read whatever
\* ARBBOT_CONFIG holds; else ARBBOT_CONFIG's value whenever it is set; the
\* default only when neither is given.
C4_Original ==
    cfgRet.called =>
        /\ cfgRet.path # None => cfgRet.cfg_path = cfgRet.path
        /\ (cfgRet.path = None /\ cfgRet.env # None) =>
               cfgRet.cfg_path = cfgRet.env
        /\ cfgRet.cfg_path = DEFAULT_CONFIG_FILE =>
               (cfgRet.path = None /\ cfgRet.env = None)

\* C4 amended: the path read is the path argument when that is a non-empty
\* string, whatever ARBBOT_CONFIG holds; else ARBBOT_CONFIG's value when that
\* is a non-empty string; else the default path.
C4_NonEmptyPrecedence ==
    cfgRet.called =>
        /\ NonEmptyStr(cfgRet.path) => cfgRet.cfg_path = cfgRet.path
        /\ (~NonEmptyStr(cfgRet.path) /\ NonEmptyStr(cfgRet.env)) =>
               cfgRet.cfg_path = cfgRet.env
        /\ (~NonEmptyStr(cfgRet.path) /\ ~NonEmptyStr(cfgRet.env)) =>
               cfgRet.cfg_path = DEFAULT_CONFIG_FILE

\* C4 witness: a call with a path argument while ARBBOT_CONFIG names another
\* file, which read the argument's file.
C4_Witness ==
    /\ cfgRet.called
    /\ cfgRet.path = ExplicitPath
    /\ cfgRet.env = EnvPath
    /\ cfgRet.cfg_path = ExplicitPath

\* C5 as stated: for every service name whose entry in the secret store is a
\* non-empty string, get_api_key returns that entry and reads no environment
\* variable.
C5_Original ==
    (/\ keyRet.called
     /\ keyRet.service_name \in DOMAIN keyring
     /\ NonEmptyStr(StoredAtCall)) =>
        /\ keyRet.kind = "return"
        /\ keyRet.value = StoredAtCall
        /\ keyRet.envReads = <<>>

\* C5 amended: for every non-empty service name whose entry in the secret
\* store is a non-empty string, get_api_key returns that entry and reads no
\* environment variable, whatever the environment holds.
C5_StoreValueWins ==
    (NamedCall /\ NonEmptyStr(StoredAtCall)) =>
        /\ keyRet.kind = "return"
        /\ keyRet.value = StoredAtCall
        /\ keyRet.envReads = <<>>

\* C5 witness: a key returned from the store while the service's environment
\* variable held a different non-empty value.
C5_Witness ==
    /\ NamedCall
    /\ NonEmptyStr(StoredAtCall)
    /\ NonEmptyStr(EnvAtCall)
    /\ EnvAtCall # StoredAtCall
    /\ keyRet.kind = "return"

\* C6: for every non-empty service name for which the store returns nothing
\* or an empty value and the variable named by the upper-cased service name
\* holds a non-empty string, get_api_key returns that string.
C6_EnvFallback ==
    (NamedCall /\ IsEmptyValue(StoredAtCall) /\ NonEmptyStr(EnvAtCall)) =>
        (keyRet.kind = "return" /\ keyRet.value = EnvAtCall)

\* C6 witness: a lower-case service name, nothing in the store, the key
\* returned from the upper-case variable.
C6_Witness ==
    /\ keyRet.called
    /\ keyRet.service_name = PyStr(<<"k", "r">>)
    /\ StoredAtCall = None
    /\ keyRet.environ[PyStr(<<"K", "R">>)] = PyStr(<<"envkey">>)
    /\ keyRet.environ[PyStr(<<"k", "r">>)] = None
    /\ keyRet.value = PyStr(<<"envkey">>)

\* C7: for every non-empty service name with no non-empty value in the store
\* and none in the variable named by its upper-cased form, get_api_key returns
\* nothing and raises CredentialError with the service name in the message.
C7_AbsentRaisesCredentialError ==
    (NamedCall /\ IsEmptyValue(StoredAtCall) /\ IsEmptyValue(EnvAtCall)) =>
        /\ keyRet.kind = "raise"
        /\ keyRet.exc = "CredentialError"
        /\ keyRet.value = None
        /\ Contains(keyRet.message, keyRet.service_name.s)

\* C7 witness: a service absent from the store whose variable is set to the
\* empty string, refused with CredentialError.
C7_Witness ==
    /\ NamedCall
    /\ StoredAtCall = None
    /\ EnvAtCall = PyStr(<<>>)
    /\ keyRet.exc = "CredentialError"

\* C8: whenever the secret store returns a value that is not a string,
\* get_api_key fails an assertion: it returns nothing and raises no
\* CredentialError, whatever the environment holds.
C8_NonStringStoreValueAsserts ==
    (NamedCall /\ StoredAtCall.t \notin {"None", "str"}) =>
        (keyRet.kind = "raise" /\ keyRet.exc = "AssertionError")

\* The five field values of the i-th Config, market_pairs by its contents
ConfigValue(i) ==
    [market_pairs |-> heap[instances[i].market_pairs.ref],
     max_cycles |-> instances[i].max_cycles,
     fetch_interval |-> instances[i].fetch_interval,
     min_spread |-> instances[i].min_spread,
     max_retries |-> instances[i].max_retries]

\* C9: once a Config is returned no later operation of its holder or of the
\* loader changes any of its five field values, the contents of market_pairs
\* included, and a later load_config leaves it in place.
C9_ConfigNeverChanges ==
    [][\A i \in DOMAIN instances :
         i \in DOMAIN instances' /\ ConfigValue(i)' = ConfigValue(i)]_vars

\* C10 as stated: with no path argument and ARBBOT_CONFIG unset, the path
\* read is config.toml in the working directory at the time of the call.
C10_Original ==
    (cfgRet.called /\ cfgRet.path = None /\ cfgRet.env = None) =>
        cfgRet.cfg_path = PathJoin(cfgRet.cwd, PyStr(<<"config.toml">>))

\* C10 amended: with no path argument and ARBBOT_CONFIG unset, the path read
\* is config.toml in the working directory the process had when config.py was
\* imported, whatever working-directory changes were made since.
C10_DefaultFixedAtImport ==
    (cfgRet.called /\ cfgRet.path = None /\ cfgRet.env = None) =>
        cfgRet.cfg_path = PathJoin(importCwd, PyStr(<<"config.toml">>))

\* C10 witness: a defaulted call made after the working directory changed.
C10_Witness ==
    /\ cfgRet.called
    /\ cfgRet.path = None
    /\ cfgRet.env = None
    /\ cfgRet.cwd # importCwd
    /\ cfgRet.cfg_path = PathJoin(importCwd, PyStr(<<"config.toml">>))

====
